---- MODULE Spec2Model ----
(***************************************************************************)
(* Task lifecycle engine of the Smart Todo App backend (src/api/db.js):    *)
(* the task store with its dependency check and recurrence generator, the  *)
(* sync endpoint and the reminder scheduler.                               *)
(*                                                                         *)
(* Granularity.  Every sqlite3 call of the server is asynchronous: the     *)
(* statement runs some time after it was issued and its callback runs      *)
(* after that.  One action of the model is one statement together with     *)
(* the callback it triggers; statements issued by different requests       *)
(* interleave freely, statements of one request run in the order the       *)
(* callbacks issue them.                                                   *)
(*                                                                         *)
(* Time.  Timestamps are whole days since an epoch; Date.now() is the      *)
(* variable now.  The time of day is left out: setDate keeps it.           *)
(***************************************************************************)
EXTENDS Integers, Sequences, FiniteSets, TLC

\* ------------------------------------------------------------------ bounds
MaxUuid == 3        \* uuidv4() results the model can hand out
MaxOps == 3         \* requests the server accepts in one run
MaxClock == 1       \* last value of Date.now() while the task requests run
MaxScanTime == 2    \* last value of Date.now() the scheduler reads
MaxReq == 2         \* PUT requests in flight at the same time
MaxBatch == 2       \* operations in one sync batch
MaxReminders == 1   \* reminders created in one run
MaxScans == 2       \* runs of the reminder scheduler
MaxEntries == 2     \* time entries started in one run
MaxStops == 2       \* stop requests in one run
MaxTimers == 3      \* setInterval calls of the page

\* ------------------------------------------------------------ JS values
\* A field a request does not carry, and SQL NULL.
Undefined == "undefined"
Null == "null"

\* JSON true / false of a request body
JsTrue == "true"
JsFalse == "false"

\* JS truthiness of the values the model uses: undefined, null, '', false
\* are falsy.
Truthy(v) == v \notin {Undefined, Null, "", JsFalse}

\* v || d
OrElse(v, d) == IF Truthy(v) THEN v ELSE d

\* What node-sqlite3 binds for a JS value: undefined is bound as NULL.
Bind(v) == IF v = Undefined THEN Null ELSE v

\* A due_at value: absent, NULL, a number of the client (epoch time), or the
\* text toISOString() makes (the INTEGER column keeps such text as text).
UndefinedDue == [kind |-> "undefined", t |-> 0]
NullDue == [kind |-> "null", t |-> 0]
Ms(n) == [kind |-> "ms", t |-> n]
Iso(n) == [kind |-> "iso", t |-> n]

\* JS truthiness of a due_at value: undefined, null and the number 0 are falsy.
TruthyDue(d) == d.kind = "iso" \/ (d.kind = "ms" /\ d.t # 0)

BindDue(d) == IF d.kind = "undefined" THEN NullDue ELSE d

\* new Date(x) for a truthy due_at: the instant a number or an ISO text names.
NewDate(d) == d.t

\* date.toISOString()
ToISOString(t) == Iso(t)

\* --------------------------------------------------------------- inputs
\* req.user.id of the authenticated caller
UserId == "alice"

\* The identifiers uuidv4() hands out, in the order it hands them out: on
\* the server, and in a client that names its own sync creates.
Uuid(n) == <<"u1", "u2", "u3", "u4", "u5">>[n]
UuidIds == {Uuid(n) : n \in 1..MaxUuid}

TaskIds == UuidIds

\* Request bodies ({ title, description, priority, completed, due_at,
\* assignee, recurring_rule }) the clients send.
Body(title, description, priority, completed, due_at, assignee, recurring_rule) ==
  [title |-> title, description |-> description, priority |-> priority,
   completed |-> completed, due_at |-> due_at, assignee |-> assignee,
   recurring_rule |-> recurring_rule]

\* a new recurring task with every field set
BodyNew == Body("t", "d", "high", Undefined, Ms(1), "bob", "daily")
\* the same record sent back with completed: true
BodyDone == Body("t", "d", "high", JsTrue, Ms(1), "bob", "daily")
\* { completed: true, recurring_rule: 'weekly' }
BodyTick == Body(Undefined, Undefined, Undefined, JsTrue, UndefinedDue, Undefined, "weekly")
\* { title: 'x', completed: true }
BodyClose == Body("x", Undefined, Undefined, JsTrue, UndefinedDue, Undefined, Undefined)
\* { title: 'x' }
BodyEdit == Body("x", Undefined, Undefined, Undefined, UndefinedDue, Undefined, Undefined)
\* a monthly task due on day 30, 2024-01-31, sent with completed: true
BodyMonthly == Body("t", "d", "high", JsTrue, Ms(30), "bob", "monthly")
\* {}
BodyEmpty == Body(Undefined, Undefined, Undefined, Undefined, UndefinedDue, Undefined, Undefined)

\* Bodies of PUT /api/tasks/:id and of POST /api/tasks
PutBodies == {BodyDone, BodyTick, BodyClose, BodyEdit, BodyMonthly}
PostBodies == {BodyNew, BodyClose, BodyTick, BodyMonthly}

\* ------------------------------------------------------------ task rows
\* A row of table tasks.
Row(id, title, description, priority, completed, due_at, created_by, assignee, recurring_rule, created_at) ==
  [id |-> id, title |-> title, description |-> description, priority |-> priority,
   completed |-> completed, due_at |-> due_at, created_by |-> created_by,
   assignee |-> assignee, recurring_rule |-> recurring_rule, created_at |-> created_at]

\* "no row": what db.get yields for an unknown id
NoRow == Row(Null, Null, Null, Null, 0, NullDue, Null, Null, Null, 0)

\* The dependency edges a database can hold: (task_id, depends_on_id).
EdgeUniverse == {<<"u1", "u2">>, <<"u2", "u1">>}

\* Table dependencies does not exist.
NoTable == {<<"no such table", "dependencies">>}

VARIABLES
  tasks,              \* table tasks: id -> row
  task_dependencies,  \* table task_dependencies, as the schema creates it
  dependencies,       \* table dependencies, which the completion check reads
  now,                \* Date.now()
  uuids,              \* how many identifiers uuidv4() has handed out
  nOps,               \* requests accepted so far
  reqs,               \* the PUT /api/tasks/:id requests in flight, per slot
  sync,               \* the POST /api/sync request in flight
  out                 \* what the latest single-item step answered and emitted

taskVars == <<tasks, task_dependencies, dependencies, uuids, nOps, reqs, sync, out>>

VARIABLES
  reminders,   \* table reminders: id -> row
  nScans,      \* runs of the scheduler started so far
  queries,     \* scans whose SELECT has not run yet: scan -> its now
  mails,       \* sendMail calls in flight: [scan, id, user_id]
  writes,      \* UPDATE reminders SET sent = 1 statements in flight: [scan, id]
  scanlog,     \* history: per scan, its now, the rows sent and the rows ever snoozed when it started, what its SELECT read
  attempts,    \* history: <<scan, id>> -> sendMail calls issued
  delivered,   \* history: id -> sendMail calls that succeeded
  fired,       \* history: ids a reminder:sent event was emitted for
  failed       \* history: ids a sendMail call failed for

remVars == <<reminders, nScans, queries, mails, writes, scanlog, attempts, delivered, fired, failed>>

VARIABLES
  time_entries,  \* table time_entries: id -> row
  stops,         \* the POST /api/time/:entryId/stop requests in flight
  nStops,        \* stop requests accepted so far
  firstStop      \* history: id -> what the first UPDATE of the entry wrote

timeVars == <<time_entries, stops, nStops, firstStop>>

VARIABLES
  timer,           \* the browser page: let timer, the interval handle held (0: null)
  timerSeconds,    \* let timerSeconds
  isTimerRunning,  \* let isTimerRunning
  intervals,       \* the handles of the intervals the page has set and not cleared
  handles          \* how many handles setInterval has handed out

pomVars == <<timer, timerSeconds, isTimerRunning, intervals, handles>>

vars == <<tasks, task_dependencies, dependencies, now, uuids, nOps, reqs, sync, out,
          reminders, nScans, queries, mails, writes, scanlog, attempts, delivered, fired, failed,
          time_entries, stops, nStops, firstStop,
          timer, timerSeconds, isTimerRunning, intervals, handles>>

\* ------------------------------------------------------------- calendar
\* Day 0 is 2024-01-01.
EpochYear == 2024

IsLeap(y) == (y % 4 = 0 /\ y % 100 # 0) \/ y % 400 = 0

\* m counts from 0, as Date's getMonth() does.
DaysInMonth(y, m) ==
  IF m = 1 THEN (IF IsLeap(y) THEN 29 ELSE 28)
  ELSE IF m \in {3, 5, 8, 10} THEN 30 ELSE 31

\* Days of the years EpochYear .. y-1.
RECURSIVE DaysBeforeYear(_)
DaysBeforeYear(y) ==
  IF y <= EpochYear THEN 0
  ELSE DaysBeforeYear(y - 1) + (IF IsLeap(y - 1) THEN 366 ELSE 365)

\* Days of the months 0 .. m-1 of year y.
RECURSIVE DaysBeforeMonth(_, _)
DaysBeforeMonth(y, m) ==
  IF m = 0 THEN 0 ELSE DaysBeforeMonth(y, m - 1) + DaysInMonth(y, m - 1)

\* The day number of day d (from 1, possibly past the month's end) of month m
\* (from 0, possibly past December) of year y: Date's own normalisation.
DayNumber(y, m, d) ==
  LET yy == IF m > 11 THEN y + 1 ELSE y
      mm == IF m > 11 THEN m - 12 ELSE m
  IN DaysBeforeYear(yy) + DaysBeforeMonth(yy, mm) + d - 1

\* <<year, month, day>> of a day number.
RECURSIVE YMDFrom(_, _, _)
YMDFrom(y, m, t) ==
  IF t < DaysInMonth(y, m) THEN <<y, m, t + 1>>
  ELSE IF m = 11 THEN YMDFrom(y + 1, 0, t - DaysInMonth(y, m))
  ELSE YMDFrom(y, m + 1, t - DaysInMonth(y, m))

YMD(t) == YMDFrom(EpochYear, 0, t)

\* nextDue.setDate(nextDue.getDate() + n)
SetDatePlus(t, n) == LET c == YMD(t) IN DayNumber(c[1], c[2], c[3] + n)

\* nextDue.setMonth(nextDue.getMonth() + 1)
SetMonthPlus1(t) == LET c == YMD(t) IN DayNumber(c[1], c[2] + 1, c[3])

\* The recurrence step of doTaskUpdate: the next due instant for a rule.
NextDue(recurring_rule, currentDue) ==
  IF recurring_rule = "daily" THEN SetDatePlus(currentDue, 1)
  ELSE IF recurring_rule = "weekly" THEN SetDatePlus(currentDue, 7)
  ELSE IF recurring_rule = "monthly" THEN SetMonthPlus1(currentDue)
  ELSE currentDue

\* taskRow.due_at ? new Date(taskRow.due_at) : new Date()
CurrentDue(taskRow, clock) ==
  IF TruthyDue(taskRow.due_at) THEN NewDate(taskRow.due_at) ELSE clock

\* -------------------------------------------------------- SQL statements
\* due_at || null
DueOrNull(d) == IF TruthyDue(d) THEN d ELSE NullDue

\* INSERT INTO tasks (...) of POST /api/tasks; completed takes its DEFAULT 0.
InsertedRow(id, b, created_at) ==
  Row(id, OrElse(b.title, ""), OrElse(b.description, ""), OrElse(b.priority, "medium"),
      0, DueOrNull(b.due_at), OrElse(UserId, Null), OrElse(b.assignee, Null),
      OrElse(b.recurring_rule, Null), created_at)

\* An UPDATE that keeps the stored value of a field the request omits.
UpdatedRowKeepingOmitted(row, b) ==
  [row EXCEPT !.title = IF b.title = Undefined THEN row.title ELSE b.title,
              !.description = IF b.description = Undefined THEN row.description
                              ELSE b.description,
              !.priority = IF b.priority = Undefined THEN row.priority ELSE b.priority,
              !.completed = IF b.completed = Undefined THEN row.completed
                            ELSE IF Truthy(b.completed) THEN 1 ELSE 0,
              !.due_at = IF b.due_at.kind = "undefined" THEN row.due_at ELSE b.due_at,
              !.assignee = IF b.assignee = Undefined THEN row.assignee ELSE b.assignee,
              !.recurring_rule = IF b.recurring_rule = Undefined THEN row.recurring_rule
                                 ELSE b.recurring_rule]

\* UPDATE tasks SET title=?,description=?,priority=?,completed=?,due_at=?,
\* assignee=?,recurring_rule=? : the row after the statement.
UpdatedRow(row, b) ==
  [row EXCEPT !.title = Bind(b.title), !.description = Bind(b.description),
              !.priority = Bind(b.priority),
              !.completed = IF Truthy(b.completed) THEN 1 ELSE 0,
              !.due_at = BindDue(b.due_at), !.assignee = Bind(b.assignee),
              !.recurring_rule = Bind(b.recurring_rule)]

\* UPDATE tasks ... WHERE id=? on a store: rows of other ids, and a missing
\* id, are left as they are.
RunUpdate(store, id, b) ==
  IF id \in DOMAIN store THEN [store EXCEPT ![id] = UpdatedRow(store[id], b)] ELSE store

\* An INSERT that rolls the series over: the rows with the new row's title
\* and rule are made incomplete again and take its due time.
RunInsertRollingOver(store, row) ==
  LET put == IF row.id \in DOMAIN store THEN store ELSE (row.id :> row) @@ store
  IN [i \in DOMAIN put |->
        IF i # row.id /\ put[i].title = row.title /\ put[i].recurring_rule = row.recurring_rule
          THEN [put[i] EXCEPT !.completed = 0, !.due_at = row.due_at]
          ELSE put[i]]

\* INSERT of a row under a PRIMARY KEY that may be taken: the statement fails
\* and the store stays as it is.
RunInsert(store, row) ==
  IF row.id \in DOMAIN store THEN store ELSE (row.id :> row) @@ store

\* INSERT OR REPLACE of a row
RunInsertOrReplace(store, row) ==
  (row.id :> row) @@ store

\* DELETE FROM tasks WHERE id=?
RunDelete(store, id) == [i \in DOMAIN store \ {id} |-> store[i]]

\* The successor's row: INSERT INTO tasks (...) of doTaskUpdate.
SuccessorRow(newId, taskRow, nextDue, created_at) ==
  Row(newId, taskRow.title, taskRow.description, taskRow.priority, 0,
      ToISOString(nextDue), taskRow.created_by, taskRow.assignee,
      taskRow.recurring_rule, created_at)

\* SELECT d.depends_on_id FROM dependencies d JOIN tasks t
\*   ON d.depends_on_id = t.id WHERE d.task_id = ? AND t.completed = 0
IncompleteDependencies(store, deps, id) ==
  {e[2] : e \in {x \in deps : x[1] = id /\ x[2] \in DOMAIN store /\ store[x[2]].completed = 0}}

\* ----------------------------------------------- responses and events
\* What a step of a single-item request answered and emitted: the
\* operation, the identifier it named, the HTTP status (0: the step sent no
\* response), whether the identifier had a row when the statement ran, the
\* io.emit calls in order, and the row the statement left (NoRow: none).
Outcome(op, id, status, found, events, record) ==
  [op |-> op, id |-> id, status |-> status, found |-> found, events |-> events,
   record |-> record]

NoOutcome == Outcome("none", Null, 0, FALSE, <<>>, NoRow)

\* io.emit(name, payload)
Event(name, payload) == [name |-> name, payload |-> payload]

\* const task = { id, title, description, priority, due_at, assignee,
\* recurring_rule, created_at }: the request's own fields.
CreatedEvent(id, b, created_at) ==
  [id |-> id, title |-> b.title, description |-> b.description, priority |-> b.priority,
   due_at |-> b.due_at, assignee |-> b.assignee, recurring_rule |-> b.recurring_rule,
   created_at |-> created_at]

\* { id, ...req.body }
UpdatedEvent(id, b) ==
  [id |-> id, title |-> b.title, description |-> b.description, priority |-> b.priority,
   completed |-> b.completed, due_at |-> b.due_at, assignee |-> b.assignee,
   recurring_rule |-> b.recurring_rule]

\* { id }
DeletedEvent(id) == [id |-> id]

\* { id:newId, title, due_at: nextDue.toISOString(), recurring_rule }
SuccessorEvent(newId, taskRow, nextDue) ==
  [id |-> newId, title |-> taskRow.title, due_at |-> ToISOString(nextDue),
   recurring_rule |-> taskRow.recurring_rule]

\* History of a sync request: another request writes to tasks while its
\* loop runs.
Disturbed(s) == IF s.pc = "run" THEN [s EXCEPT !.alone = FALSE] ELSE s

\* ------------------------------------------------ PUT /api/tasks/:id
\* A request slot.  pc is the statement the request waits for: "check" (the
\* dependency query), "update" (doTaskUpdate's UPDATE), "select" (the db.get
\* of the recurrence step), "insert" (the successor's INSERT), or "done".
\* status is the HTTP status of the response (0: none sent yet) and missing
\* the list a 400 carries.  before / after are the target's row right before
\* and right after the UPDATE ran, succ the successors this request inserted,
\* prereqs the incomplete prerequisites the target had when the dependency
\* query ran, and dangling the prerequisites its edges named then that had
\* no row.
IdleReq ==
  [pc |-> "idle", id |-> Null, body |-> BodyEmpty, status |-> 0, missing |-> {},
   taskRow |-> NoRow, nextDue |-> 0, newId |-> Null, created_at |-> 0,
   before |-> NoRow, after |-> NoRow, succ |-> {}, prereqs |-> {}, dangling |-> {}]

Slots == 1..MaxReq

\* The identifiers a client can name in :id: those handed out so far,
\* whether their task is still in the store or not.
Known == {Uuid(n) : n \in 1..uuids}

RowOf(store, id) == IF id \in DOMAIN store THEN store[id] ELSE NoRow

\* The handler up to its first statement: with completed set it issues the
\* dependency query, otherwise it calls doTaskUpdate.
PutRequest(s, id, body) ==
  /\ id \in Known
  /\ reqs[s].pc \in {"idle", "done"}
  /\ \A q \in 1..(s - 1) : reqs[q].pc \notin {"idle", "done"}
  /\ nOps < MaxOps
  /\ nOps' = nOps + 1
  /\ reqs' = [reqs EXCEPT ![s] =
       [IdleReq EXCEPT !.pc = IF Truthy(body.completed) THEN "check" ELSE "update",
                       !.id = id, !.body = body]]
  /\ UNCHANGED <<tasks, task_dependencies, dependencies, now, uuids, sync, out>>
  /\ UNCHANGED <<remVars, timeVars, pomVars>>

\* The prerequisites of task id that are in the store and incomplete, by the
\* dependency edges the schema's table holds.
IncompletePrerequisites(store, id) ==
  {e[2] : e \in {x \in task_dependencies :
                   x[1] = id /\ x[2] \in DOMAIN store /\ store[x[2]].completed = 0}}

\* The prerequisites the edges of task id name that have no row in the store.
DanglingPrerequisites(store, id) ==
  {e[2] : e \in {x \in task_dependencies : x[1] = id /\ x[2] \notin DOMAIN store}}

\* What the dependency query's callback does with (err, rows).
CheckOutcome(r, store, deps) ==
  IF deps = NoTable
    THEN [r EXCEPT !.pc = "done", !.status = 500]
  ELSE IF IncompleteDependencies(store, deps, r.id) # {}
    THEN [r EXCEPT !.pc = "done", !.status = 400,
                   !.missing = IncompleteDependencies(store, deps, r.id)]
  ELSE [r EXCEPT !.pc = "update"]

\* The dependency query runs and its callback answers or calls doTaskUpdate.
DependencyCheck(s) ==
  /\ reqs[s].pc = "check"
  /\ reqs' = [reqs EXCEPT ![s] =
       [CheckOutcome(reqs[s], tasks, dependencies) EXCEPT
          !.prereqs = IncompletePrerequisites(tasks, reqs[s].id),
          !.dangling = DanglingPrerequisites(tasks, reqs[s].id)]]
  /\ out' = IF reqs'[s].pc = "done"
              THEN Outcome("update", reqs[s].id, reqs'[s].status, reqs[s].id \in DOMAIN tasks, <<>>, NoRow)
              ELSE out
  /\ UNCHANGED <<tasks, task_dependencies, dependencies, now, uuids, nOps, sync>>
  /\ UNCHANGED <<remVars, timeVars, pomVars>>

\* completed && recurring_rule, on the request's own fields
WantsSuccessor(body) == Truthy(body.completed) /\ Truthy(body.recurring_rule)

\* doTaskUpdate: the UPDATE runs; its callback starts the recurrence step
\* when the request says completed and carries a rule, then emits
\* task:updated and answers 200.
DoTaskUpdate(s) ==
  /\ reqs[s].pc = "update"
  /\ tasks' = RunUpdate(tasks, reqs[s].id, reqs[s].body)
  /\ reqs' = [reqs EXCEPT ![s] =
       [reqs[s] EXCEPT !.pc = IF WantsSuccessor(reqs[s].body) THEN "select" ELSE "done",
                       !.status = 200,
                       !.before = RowOf(tasks, reqs[s].id),
                       !.after = RowOf(tasks', reqs[s].id)]]
  /\ out' = Outcome("update", reqs[s].id, 200, reqs[s].id \in DOMAIN tasks,
                    <<Event("task:updated", UpdatedEvent(reqs[s].id, reqs[s].body))>>,
                    RowOf(tasks', reqs[s].id))
  /\ sync' = Disturbed(sync)
  /\ UNCHANGED <<task_dependencies, dependencies, now, uuids, nOps>>
  /\ UNCHANGED <<remVars, timeVars, pomVars>>

\* SELECT * FROM tasks WHERE id = ? runs; with a row its callback computes
\* nextDue, draws newId and issues the INSERT (whose created_at is read now).
SelectTaskRow(s) ==
  /\ reqs[s].pc = "select"
  /\ IF reqs[s].id \in DOMAIN tasks /\ uuids < MaxUuid
       THEN /\ reqs' = [reqs EXCEPT ![s] =
                 [reqs[s] EXCEPT
                    !.pc = "insert",
                    !.taskRow = tasks[reqs[s].id],
                    !.nextDue = NextDue(reqs[s].body.recurring_rule,
                                        CurrentDue(tasks[reqs[s].id], now)),
                    !.newId = Uuid(uuids + 1),
                    !.created_at = now]]
            /\ uuids' = uuids + 1
       ELSE /\ reqs[s].id \notin DOMAIN tasks
            /\ reqs' = [reqs EXCEPT ![s] = [reqs[s] EXCEPT !.pc = "done"]]
            /\ uuids' = uuids
  /\ UNCHANGED <<tasks, task_dependencies, dependencies, now, nOps, sync, out>>
  /\ UNCHANGED <<remVars, timeVars, pomVars>>

\* The successor's INSERT runs; its callback emits task:created.
InsertSuccessor(s) ==
  /\ reqs[s].pc = "insert"
  /\ tasks' = RunInsert(tasks, SuccessorRow(reqs[s].newId, reqs[s].taskRow,
                                            reqs[s].nextDue, reqs[s].created_at))
  /\ reqs' = [reqs EXCEPT ![s] =
       [reqs[s] EXCEPT !.pc = "done", !.succ = reqs[s].succ \cup {reqs[s].newId}]]
  /\ out' = Outcome("successor", reqs[s].newId, 0, TRUE,
                    <<Event("task:created", SuccessorEvent(reqs[s].newId, reqs[s].taskRow, reqs[s].nextDue))>>,
                    RowOf(tasks', reqs[s].newId))
  /\ sync' = Disturbed(sync)
  /\ UNCHANGED <<task_dependencies, dependencies, now, uuids, nOps>>
  /\ UNCHANGED <<remVars, timeVars, pomVars>>

\* Table tasks after a PUT /api/tasks/:id that runs with no other request
\* in between its statements: the dependency query (an error or a row ends
\* the request), doTaskUpdate's UPDATE, and with completed and a rule in
\* the request the SELECT and the successor's INSERT under newId.
PutAlone(store, deps, id, body, clock, newId) ==
  IF Truthy(body.completed)
     /\ (deps = NoTable \/ IncompleteDependencies(store, deps, id) # {})
    THEN store
  ELSE LET updated == RunUpdate(store, id, body)
       IN IF WantsSuccessor(body) /\ id \in DOMAIN updated
            THEN RunInsert(updated,
                   SuccessorRow(newId, updated[id],
                                NextDue(body.recurring_rule, CurrentDue(updated[id], clock)),
                                clock))
            ELSE updated

\* ------------------------------------ POST /api/tasks, DELETE /api/tasks/:id
\* body('title').notEmpty() rejects the request; otherwise the INSERT runs
\* under a fresh uuid.
CreateTask(body) ==
  /\ nOps < MaxOps
  /\ uuids < MaxUuid
  /\ nOps' = nOps + 1
  /\ IF Truthy(body.title)
       THEN /\ tasks' = RunInsert(tasks, InsertedRow(Uuid(uuids + 1), body, now))
            /\ uuids' = uuids + 1
            /\ out' = Outcome("create", Uuid(uuids + 1), 200, FALSE,
                              <<Event("task:created", CreatedEvent(Uuid(uuids + 1), body, now))>>,
                              RowOf(tasks', Uuid(uuids + 1)))
            /\ sync' = Disturbed(sync)
       ELSE /\ out' = Outcome("create", Null, 400, FALSE, <<>>, NoRow)
            /\ UNCHANGED <<tasks, uuids, sync>>
  /\ UNCHANGED <<task_dependencies, dependencies, now, reqs>>
  /\ UNCHANGED <<remVars, timeVars, pomVars>>

DeleteTask(id) ==
  /\ id \in Known
  /\ nOps < MaxOps
  /\ nOps' = nOps + 1
  /\ tasks' = RunDelete(tasks, id)
  /\ out' = Outcome("delete", id, 200, id \in DOMAIN tasks,
                    <<Event("task:deleted", DeletedEvent(id))>>, NoRow)
  /\ sync' = Disturbed(sync)
  /\ UNCHANGED <<task_dependencies, dependencies, now, uuids, reqs>>
  /\ UNCHANGED <<remVars, timeVars, pomVars>>

\* ------------------------------------------------------ POST /api/sync
\* One queued operation of a client: { type, action, payload }, payload.id
\* written as id.  hasPayload is FALSE when the operation carries none.
Op(type, action, hasPayload, id, payload) ==
  [type |-> type, action |-> action, hasPayload |-> hasPayload, id |-> id,
   payload |-> payload]

\* The batch is fixed when the request arrives; the loop reads it one
\* element per round and never looks ahead, so the model draws each element
\* when the loop reaches it.  A client names the task u1 in its operations.
SyncOps ==
  { Op("task", "create", TRUE, "u1", BodyNew),
    Op("task", "create", TRUE, "u1", BodyDone),
    Op("task", "create", TRUE, Undefined, BodyNew),
    Op("task", "update", TRUE, "u1", BodyClose),
    Op("task", "update", TRUE, "u1", BodyEdit),
    Op("task", "update", TRUE, "u1", BodyDone),
    Op("task", "update", FALSE, Undefined, BodyEmpty),
    Op("task", "create", FALSE, Undefined, BodyEmpty),
    Op("note", "create", TRUE, "u1", BodyNew) }

\* One entry of results: { ok:true, id } or { ok:false, error }.
OkResult(id) == [ok |-> TRUE, id |-> id, error |-> ""]
ErrResult(msg) == [ok |-> FALSE, id |-> Undefined, error |-> msg]

\* The row a sync create writes: INSERT OR REPLACE INTO tasks (...).
SyncCreatedRow(id, t, created_at) ==
  Row(id, OrElse(t.title, ""), OrElse(t.description, ""), OrElse(t.priority, "medium"),
      IF Truthy(t.completed) THEN 1 ELSE 0, DueOrNull(t.due_at), UserId,
      OrElse(t.assignee, Null), OrElse(t.recurring_rule, Null), created_at)

\* The batch of two operations a client sends again after a lost response:
\* create the task u1, then give it the title 'x'.
ReplayBatch ==
  <<Op("task", "create", TRUE, "u1", BodyNew), Op("task", "update", TRUE, "u1", BodyEdit)>>

\* No table was kept.
NotKept == [i \in {"-"} |-> NoRow]

\* The sync request: pc, the elements of ops the loop has read so far, and
\* results.  pending holds the statements issued and not yet run: the
\* element's index k, the identifier and the Date.now() its parameters were
\* built with.  History: written lists the indices in the order their
\* statements ran and missed those whose UPDATE found no row; alone says that no other request wrote to tasks since
\* the loop started; after is table tasks as the response of a ReplayBatch
\* applied alone found it, prev is after of the request answered before
\* this one, and settled says that the loop started on that very table.
IdleSync ==
  [pc |-> "idle", ops |-> <<>>, results |-> <<>>, pending |-> {}, written |-> <<>>,
   missed |-> {}, alone |-> TRUE, after |-> NotKept, prev |-> NotKept, settled |-> FALSE]

\* The handler starts its loop over ops.
SyncRequest ==
  /\ sync.pc \in {"idle", "done", "crashed"}
  /\ nOps < MaxOps
  /\ nOps' = nOps + 1
  /\ sync' = [IdleSync EXCEPT !.pc = "run", !.prev = sync.after,
                              !.settled = (tasks = sync.after)]
  /\ UNCHANGED <<tasks, task_dependencies, dependencies, now, uuids, reqs, out>>
  /\ UNCHANGED <<remVars, timeVars, pomVars>>

\* The store after operation op, given the identifier a create without one
\* would draw.
SyncStore(store, op, fresh, clock) ==
  IF op.type = "task" /\ op.action = "create" /\ op.hasPayload
    THEN RunInsertOrReplace(store, SyncCreatedRow(OrElse(op.id, fresh), op.payload, clock))
  ELSE IF op.type = "task" /\ op.action = "update" /\ op.hasPayload
    THEN RunUpdate(store, op.id, op.payload)
  ELSE store

\* results after operation op: an entry is pushed for a task create and a
\* task update only; an update without payload throws inside the try.
SyncResults(results, op, fresh) ==
  IF op.type = "task" /\ op.action = "create"
    THEN Append(results, OkResult(OrElse(op.id, fresh)))
  ELSE IF op.type = "task" /\ op.action = "update"
    THEN (IF op.hasPayload THEN Append(results, OkResult(op.id))
          ELSE Append(results, ErrResult("TypeError")))
  ELSE results

\* const id = t.id || uuidv4() of a create without payload throws outside
\* the try: the async function ends and no response is ever sent.
SyncThrows(op) == op.type = "task" /\ op.action = "create" /\ ~op.hasPayload

\* Whether the operation draws an identifier from uuidv4().
SyncDrawsUuid(op) ==
  op.type = "task" /\ op.action = "create" /\ op.hasPayload /\ ~Truthy(op.id)

\* The identifier a create draws or is given makes the generator's count
\* at least its number.
UuidsAfter(n, op) ==
  IF SyncDrawsUuid(op) THEN n + 1
  ELSE IF op.type = "task" /\ op.action = "create" /\ op.hasPayload /\ n = 0 THEN 1
  ELSE n

\* The UPDATE of a sync update names an identifier without a row: the
\* statement changes nothing and reports no error.
UpdateMisses(store, op) ==
  op.type = "task" /\ op.action = "update" /\ op.hasPayload /\ op.id \notin DOMAIN store

\* Whether the round for op calls db.run.
SyncIssues(op) == op.type = "task" /\ op.action \in {"create", "update"} /\ op.hasPayload

\* A loop that goes on to its next round without waiting.
AwaitedNever(s) == TRUE

\* await new Promise(...): the loop goes on only when the statement it
\* issued has called back.
Awaited(s) == s.pending = {}

\* One round of the for loop over the next element op, up to its await: the
\* parameters are built and db.run is called.  A round that calls no db.run
\* is over at once.
SyncApply(op) ==
  /\ sync.pc = "run"
  /\ Awaited(sync)
  /\ Len(sync.ops) < MaxBatch
  /\ LET fresh == Uuid(uuids + 1)
         k == Len(sync.ops) + 1
     IN IF SyncThrows(op)
          THEN /\ sync' = [sync EXCEPT !.pc = "crashed", !.ops = Append(sync.ops, op)]
               /\ UNCHANGED uuids
          ELSE IF SyncIssues(op)
          THEN /\ SyncDrawsUuid(op) => uuids < MaxUuid
               /\ uuids' = UuidsAfter(uuids, op)
               /\ sync' = [sync EXCEPT
                    !.ops = Append(sync.ops, op),
                    !.pending = sync.pending \cup {[k |-> k, id |-> OrElse(op.id, fresh), clock |-> now]}]
          ELSE /\ UNCHANGED uuids
               /\ sync' = [sync EXCEPT !.ops = Append(sync.ops, op),
                                       !.results = SyncResults(sync.results, op, fresh)]
  /\ UNCHANGED <<tasks, task_dependencies, dependencies, now, nOps, reqs, out>>
  /\ UNCHANGED <<remVars, timeVars, pomVars>>

\* The statement of round p.k runs and its callback resolves the promise:
\* the result is pushed.
SyncWrite(p) ==
  /\ sync.pc = "run"
  /\ p \in sync.pending
  /\ tasks' = SyncStore(tasks, sync.ops[p.k], p.id, p.clock)
  /\ sync' = [sync EXCEPT !.pending = sync.pending \ {p},
                          !.written = Append(sync.written, p.k),
                          !.missed = IF UpdateMisses(tasks, sync.ops[p.k])
                                       THEN sync.missed \cup {p.k} ELSE sync.missed,
                          !.results = SyncResults(sync.results, sync.ops[p.k], p.id)]
  /\ UNCHANGED <<task_dependencies, dependencies, now, uuids, nOps, reqs, out>>
  /\ UNCHANGED <<remVars, timeVars, pomVars>>

\* The loop is over: res.json({ results }).
SyncRespond ==
  /\ sync.pc = "run"
  /\ Awaited(sync)
  /\ sync' = [sync EXCEPT !.pc = "done",
                          !.after = IF sync.ops = ReplayBatch /\ sync.alone
                                      THEN tasks ELSE NotKept]
  /\ UNCHANGED <<tasks, task_dependencies, dependencies, now, uuids, nOps, reqs, out>>
  /\ UNCHANGED <<remVars, timeVars, pomVars>>

\* ---------------------------------------------------------------- clock
Tick ==
  /\ now < MaxClock
  /\ now' = now + 1
  /\ UNCHANGED taskVars
  /\ UNCHANGED <<remVars, timeVars, pomVars>>

\* ------------------------------------------------------------ reminders
\* SQL NULL, and a field a request does not carry, in a time column.
NullTime == -1

\* remind_at || null, and snoozed_until && ...: null, undefined and 0 are falsy.
TruthyTime(t) == t # NullTime /\ t # 0

RemId(n) == <<"r1", "r2", "r3", "r4">>[n]
RemIds == {RemId(n) : n \in 1..MaxReminders}

\* A caller whose token names no row of table users.
StrangerId == "carol"

\* u.email of the LEFT JOIN users: NULL when the user has no row.
UserEmail(user_id) == IF user_id = UserId THEN "alice@example.com" ELSE Null

\* The remind_at and snoozed_until values the clients send.
RemindAtInputs == {NullTime, 1}
SnoozeInputs == {2}

\* POST /api/reminders: INSERT INTO reminders (id,task_id,user_id,remind_at,sent).
CreateReminder(user_id, remind_at) ==
  /\ Cardinality(DOMAIN reminders) < MaxReminders
  /\ LET id == RemId(Cardinality(DOMAIN reminders) + 1)
     IN reminders' = (id :> [id |-> id, user_id |-> user_id,
                             remind_at |-> IF TruthyTime(remind_at) THEN remind_at ELSE NullTime,
                             snoozed_until |-> NullTime, sent |-> 0]) @@ reminders
  /\ UNCHANGED <<nScans, queries, mails, writes, scanlog, attempts, delivered, fired, failed>>
  /\ UNCHANGED <<now, taskVars, timeVars, pomVars>>

\* A snooze that also makes the reminder unsent again.
RunSnoozeResetsSent(rems, id, snoozed_until) ==
  IF id \in DOMAIN rems
    THEN [rems EXCEPT ![id].snoozed_until = snoozed_until, ![id].sent = 0] ELSE rems

\* UPDATE reminders SET snoozed_until=? WHERE id=?
RunSnooze(rems, id, snoozed_until) ==
  IF id \in DOMAIN rems THEN [rems EXCEPT ![id].snoozed_until = snoozed_until] ELSE rems

\* POST /api/reminders/:id/snooze
Snooze(id, snoozed_until) ==
  /\ reminders' = RunSnooze(reminders, id, snoozed_until)
  /\ reminders' # reminders
  /\ UNCHANGED <<nScans, queries, mails, writes, scanlog, attempts, delivered, fired, failed>>
  /\ UNCHANGED <<now, taskVars, timeVars, pomVars>>

\* cron fires at time t, later than the run before it: const now =
\* Date.now(), and the SELECT is issued.  (The first run of the log is at
\* any time from now on.)
ScanStart(t) ==
  /\ nScans < MaxScans
  /\ nScans' = nScans + 1
  /\ t > now \/ (nScans = 0 /\ t >= now)
  /\ now' = t
  /\ queries' = ((nScans + 1) :> t) @@ queries
  /\ scanlog' = [scanlog EXCEPT ![nScans + 1] =
                    [now |-> t, started |-> TRUE, read |-> FALSE,
                     sentBefore |-> {r \in DOMAIN reminders : reminders[r].sent = 1},
                     snoozedBefore |-> {r \in DOMAIN reminders :
                                          reminders[r].snoozed_until # NullTime},
                     failedBefore |-> failed, unsent |-> {}, snoozed |-> {}]]
  /\ UNCHANGED <<reminders, mails, writes, attempts, delivered, fired, failed>>
  /\ UNCHANGED <<taskVars, timeVars, pomVars>>

\* The SELECT without its r.sent = 0 condition.
DueRemindersAnySent(rems, t) ==
  {r \in DOMAIN rems : rems[r].remind_at # NullTime /\ rems[r].remind_at <= t}

\* SELECT r.* ... WHERE r.sent = 0 AND r.remind_at IS NOT NULL AND r.remind_at <= ?
DueReminders(rems, t) ==
  {r \in DOMAIN rems : rems[r].sent = 0 /\ rems[r].remind_at # NullTime /\ rems[r].remind_at <= t}

\* The snooze filter with >= in place of >.
SkipSnoozedInclusive(rem, t) == TruthyTime(rem.snoozed_until) /\ rem.snoozed_until >= t

\* if (rem.snoozed_until && rem.snoozed_until > now) return;
SkipSnoozed(rem, t) == TruthyTime(rem.snoozed_until) /\ rem.snoozed_until > t

\* A forEach without the snooze filter.
ToSendIgnoringSnooze(rems, t) ==
  {r \in DueReminders(rems, t) : Truthy(UserEmail(rems[r].user_id))}

\* The rows the forEach hands to sendMail: not snoozed, and with an address.
ToSend(rems, t) ==
  {r \in DueReminders(rems, t) : ~SkipSnoozed(rems[r], t) /\ Truthy(UserEmail(rems[r].user_id))}

\* What the history keeps of the table a scan's SELECT read at time t: the
\* reminders that were unsent with a remind_at at or before t, and those
\* whose snoozed_until was later than t.
UnsentDue(rems, t) ==
  {r \in DOMAIN rems : rems[r].sent = 0 /\ rems[r].remind_at \in 0..t}
SnoozeActive(rems, t) ==
  {r \in DOMAIN rems : rems[r].snoozed_until # NullTime /\ rems[r].snoozed_until > t}

\* The SELECT of scan s runs; its callback walks the rows and calls sendMail.
ScanQuery(s) ==
  /\ s \in DOMAIN queries
  /\ LET t == queries[s]
         send == ToSend(reminders, t)
     IN /\ mails' = mails \cup {[scan |-> s, id |-> r, user_id |-> reminders[r].user_id] : r \in send}
        /\ attempts' = [p \in DOMAIN attempts |->
                          IF p[1] = s /\ p[2] \in send THEN attempts[p] + 1 ELSE attempts[p]]
        /\ scanlog' = [scanlog EXCEPT ![s] =
             [scanlog[s] EXCEPT !.read = TRUE,
                                !.unsent = UnsentDue(reminders, t),
                                !.snoozed = SnoozeActive(reminders, t)]]
  /\ queries' = [q \in DOMAIN queries \ {s} |-> queries[q]]
  /\ UNCHANGED <<reminders, nScans, writes, delivered, fired, failed>>
  /\ UNCHANGED <<now, taskVars, timeVars, pomVars>>

\* A callback that issues the UPDATE whether or not sendMail failed.
MailCallbackWritesAlways(err, m) == {[scan |-> m.scan, id |-> m.id]}

\* The statements sendMail's callback (err, info) issues for mail m: none
\* with err, the UPDATE of sent otherwise.
MailCallbackWrites(err, m) ==
  IF err THEN {} ELSE {[scan |-> m.scan, id |-> m.id]}

\* sendMail's callback with err: console.error, nothing else.
MailFails(m) ==
  /\ m \in mails
  /\ mails' = mails \ {m}
  /\ writes' = writes \cup MailCallbackWrites(TRUE, m)
  /\ failed' = failed \cup {m.id}
  /\ UNCHANGED <<reminders, nScans, queries, scanlog, attempts, delivered, fired>>
  /\ UNCHANGED <<now, taskVars, timeVars, pomVars>>

\* sendMail's callback without err: the UPDATE is issued and reminder:sent
\* is emitted to the user's room.
MailSucceeds(m) ==
  /\ m \in mails
  /\ mails' = mails \ {m}
  /\ writes' = writes \cup MailCallbackWrites(FALSE, m)
  /\ delivered' = [delivered EXCEPT ![m.id] = delivered[m.id] + 1]
  /\ fired' = fired \cup {m.id}
  /\ UNCHANGED <<reminders, nScans, queries, scanlog, attempts, failed>>
  /\ UNCHANGED <<now, taskVars, timeVars, pomVars>>

\* UPDATE reminders SET sent = 1 WHERE id = ?
RunMarkSent(rems, id) ==
  IF id \in DOMAIN rems THEN [rems EXCEPT ![id].sent = 1] ELSE rems

\* The UPDATE runs.
MarkSent(w) ==
  /\ w \in writes
  /\ writes' = writes \ {w}
  /\ reminders' = RunMarkSent(reminders, w.id)
  /\ UNCHANGED <<nScans, queries, mails, scanlog, attempts, delivered, fired, failed>>
  /\ UNCHANGED <<now, taskVars, timeVars, pomVars>>

\* The UPDATE fails: console.error, the row keeps sent = 0.
MarkSentFails(w) ==
  /\ w \in writes
  /\ writes' = writes \ {w}
  /\ UNCHANGED <<reminders, nScans, queries, mails, scanlog, attempts, delivered, fired, failed>>
  /\ UNCHANGED <<now, taskVars, timeVars, pomVars>>

\* Bookkeeping of a scheduler that runs without end: when nothing of the
\* scans logged so far is in flight, the log is dropped and its scan numbers
\* are used again.  Of the history only what reminders were delivered at all
\* is kept.  Times after MaxScanTime count as MaxScanTime: no stored time is
\* later.
ForgetScans ==
  /\ nScans > 0
  /\ DOMAIN queries = {} /\ mails = {} /\ writes = {}
  /\ nScans' = 0
  /\ scanlog' = [s \in 1..MaxScans |->
                   [now |-> 0, started |-> FALSE, read |-> FALSE, sentBefore |-> {},
                    snoozedBefore |-> {},
                    failedBefore |-> {}, unsent |-> {}, snoozed |-> {}]]
  /\ attempts' = [p \in (1..MaxScans) \X RemIds |-> 0]
  /\ delivered' = [r \in RemIds |-> IF delivered[r] > 0 THEN 1 ELSE 0]
  /\ UNCHANGED <<reminders, queries, mails, writes, fired, failed>>
  /\ UNCHANGED <<now, taskVars, timeVars, pomVars>>

\* --------------------------------------------------------- time entries
\* The readings of Date.now() the time-entry handlers take, in
\* milliseconds; the clock of the host may be set back between two of them.
ClockReadings == {0, 1000, 1999, 126000}

\* The readings the start handler takes.
StartReadings == {0, 1000}

\* uuidv4() of POST /api/tasks/:id/time/start
EntryId(n) == <<"e1", "e2", "e3", "e4">>[n]
EntryIds == {EntryId(n) : n \in 1..MaxEntries}

\* Math.floor(x / 1000)
FloorSeconds(x) == x \div 1000

\* The same without Math.max(0, ...).
DurationUnclamped(stopped_at, started_at) == FloorSeconds(stopped_at - started_at)

\* Math.max(0, Math.floor((stopped_at - row.started_at)/1000))
Duration(stopped_at, started_at) ==
  IF FloorSeconds(stopped_at - started_at) > 0 THEN FloorSeconds(stopped_at - started_at) ELSE 0

\* POST /api/tasks/:id/time/start at clock reading t: INSERT INTO
\* time_entries (id,task_id,user_id,started_at); stopped_at and duration
\* are NULL.
StartEntry(task_id, t) ==
  /\ Cardinality(DOMAIN time_entries) < MaxEntries
  /\ LET id == EntryId(Cardinality(DOMAIN time_entries) + 1)
     IN time_entries' = (id :> [id |-> id, task_id |-> task_id, user_id |-> UserId,
                                started_at |-> t, stopped_at |-> NullTime,
                                duration |-> NullTime]) @@ time_entries
  /\ UNCHANGED <<now, stops, nStops, firstStop>>
  /\ UNCHANGED <<taskVars, remVars, pomVars>>

\* POST /api/time/:entryId/stop at clock reading t: stopped_at is read and
\* the SELECT is issued.
StopRequest(entryId, t) ==
  /\ nStops < MaxStops
  /\ nStops' = nStops + 1
  /\ stops' = stops \cup {[entryId |-> entryId, stopped_at |-> t,
                            pc |-> "select", duration |-> NullTime]}
  /\ UNCHANGED <<now, time_entries, firstStop>>
  /\ UNCHANGED <<taskVars, remVars, pomVars>>

\* SELECT * FROM time_entries WHERE id = ? runs: without a row the callback
\* answers 404 and the request is over, with one it computes duration and
\* issues the UPDATE.
StopSelect(r) ==
  /\ r \in stops
  /\ r.pc = "select"
  /\ stops' = (stops \ {r}) \cup
       (IF r.entryId \in DOMAIN time_entries
          THEN {[r EXCEPT !.pc = "update",
                          !.duration = Duration(r.stopped_at, time_entries[r.entryId].started_at)]}
          ELSE {})
  /\ UNCHANGED <<now, time_entries, nStops, firstStop>>
  /\ UNCHANGED <<taskVars, remVars, pomVars>>

\* UPDATE time_entries SET stopped_at=?,duration=? WHERE id=?
RunStop(entries, id, stopped_at, duration) ==
  IF id \in DOMAIN entries
    THEN [entries EXCEPT ![id].stopped_at = stopped_at, ![id].duration = duration]
    ELSE entries

\* The UPDATE runs and its callback answers { id, stopped_at, duration }:
\* the request is over.
StopUpdate(r) ==
  /\ r \in stops
  /\ r.pc = "update"
  /\ time_entries' = RunStop(time_entries, r.entryId, r.stopped_at, r.duration)
  /\ stops' = stops \ {r}
  /\ firstStop' = IF r.entryId \in DOMAIN firstStop THEN firstStop
                  ELSE (r.entryId :> [stopped_at |-> r.stopped_at, duration |-> r.duration])
                       @@ firstStop
  /\ UNCHANGED <<now, nStops>>
  /\ UNCHANGED <<taskVars, remVars, pomVars>>

\* ------------------------------------------- pomodoro timer (browser)
\* let timer = null
NoTimer == 0

\* 25 * 60
TimerFull == 25 * 60

\* The body of window.pauseTimer: isTimerRunning = false; if (timer){
\* clearInterval(timer); timer = null; }
PauseTimerBody ==
  /\ isTimerRunning' = FALSE
  /\ IF timer # NoTimer
       THEN intervals' = intervals \ {timer} /\ timer' = NoTimer
       ELSE UNCHANGED <<intervals, timer>>

\* A startTimer without its first line, if (isTimerRunning) return.
startTimerUnguarded ==
  /\ handles < MaxTimers
  /\ isTimerRunning' = TRUE
  /\ handles' = handles + 1
  /\ timer' = handles + 1
  /\ intervals' = intervals \cup {handles + 1}
  /\ UNCHANGED timerSeconds
  /\ UNCHANGED <<now, taskVars, remVars, timeVars>>

\* window.startTimer: nothing when running, otherwise isTimerRunning = true
\* and timer = setInterval(..., 1000).
startTimer ==
  /\ isTimerRunning \/ handles < MaxTimers
  /\ IF isTimerRunning
       THEN UNCHANGED <<isTimerRunning, handles, timer, intervals>>
       ELSE /\ isTimerRunning' = TRUE
            /\ handles' = handles + 1
            /\ timer' = handles + 1
            /\ intervals' = intervals \cup {handles + 1}
  /\ UNCHANGED timerSeconds
  /\ UNCHANGED <<now, taskVars, remVars, timeVars>>

\* window.pauseTimer
pauseTimer ==
  /\ PauseTimerBody
  /\ UNCHANGED <<timerSeconds, handles>>
  /\ UNCHANGED <<now, taskVars, remVars, timeVars>>

\* window.resetTimer: pauseTimer(); timerSeconds = 25*60
resetTimer ==
  /\ PauseTimerBody
  /\ timerSeconds' = TimerFull
  /\ UNCHANGED handles
  /\ UNCHANGED <<now, taskVars, remVars, timeVars>>

\* The callback of interval h fires: timerSeconds--, and at 0 or below
\* pauseTimer() and timerSeconds = 25*60.
TimerTick(h) ==
  /\ h \in intervals
  /\ IF timerSeconds - 1 <= 0
       THEN /\ PauseTimerBody
            /\ timerSeconds' = TimerFull
       ELSE /\ timerSeconds' = timerSeconds - 1
            /\ UNCHANGED <<isTimerRunning, intervals, timer>>
  /\ UNCHANGED handles
  /\ UNCHANGED <<now, taskVars, remVars, timeVars>>

\* ------------------------------------------------------- specifications
EmptyTable == [i \in {} |-> NoRow]

\* The database file outlives the server (CREATE TABLE IF NOT EXISTS): the
\* dependency edges come with it.  The schema keeps them in
\* task_dependencies; a database may also hold them under the name the
\* completion check reads.
InitTasks ==
  /\ tasks = EmptyTable
  /\ task_dependencies \in SUBSET EdgeUniverse
  /\ dependencies \in {NoTable, task_dependencies}
  /\ uuids = 0
  /\ nOps = 0
  /\ reqs = [s \in Slots |-> IdleReq]
  /\ sync = IdleSync
  /\ out = NoOutcome

InitReminders ==
  /\ reminders = [i \in {} |-> 0]
  /\ nScans = 0
  /\ queries = [i \in {} |-> 0]
  /\ mails = {}
  /\ writes = {}
  /\ scanlog = [s \in 1..MaxScans |->
                  [now |-> 0, started |-> FALSE, read |-> FALSE, sentBefore |-> {},
                   snoozedBefore |-> {},
                   failedBefore |-> {}, unsent |-> {}, snoozed |-> {}]]
  /\ attempts = [p \in (1..MaxScans) \X RemIds |-> 0]
  /\ delivered = [r \in RemIds |-> 0]
  /\ fired = {}
  /\ failed = {}

InitTime ==
  /\ time_entries = [i \in {} |-> 0]
  /\ stops = {}
  /\ nStops = 0
  /\ firstStop = [i \in {} |-> 0]

\* The page as its script leaves it when loaded.
InitTimer ==
  /\ timer = NoTimer
  /\ timerSeconds = TimerFull
  /\ isTimerRunning = FALSE
  /\ intervals = {}
  /\ handles = 0

Init == now = 0 /\ InitTasks /\ InitReminders /\ InitTime /\ InitTimer

Next ==
  \/ \E s \in Slots, id \in TaskIds, body \in PutBodies : PutRequest(s, id, body)
  \/ \E s \in Slots : DependencyCheck(s)
  \/ \E s \in Slots : DoTaskUpdate(s)
  \/ \E s \in Slots : SelectTaskRow(s)
  \/ \E s \in Slots : InsertSuccessor(s)
  \/ \E body \in PostBodies : CreateTask(body)
  \/ \E id \in TaskIds : DeleteTask(id)
  \/ Tick

\* The task store under single-item requests: POST, PUT and DELETE of
\* /api/tasks, the PUT requests interleaved statement by statement.
Spec == Init /\ [][Next]_vars

\* A database the server has run on: the task u1 incomplete, its
\* prerequisite u2 completed (both made by POST /api/tasks { title: 'x' },
\* u2 then sent { title: 'x', completed: true }), the edge between them
\* under the name the completion check reads.
InitRace ==
  /\ now = 0
  /\ tasks = ("u1" :> InsertedRow("u1", BodyClose, 0))
              @@ ("u2" :> UpdatedRow(InsertedRow("u2", BodyClose, 0), BodyClose))
  /\ task_dependencies = {<<"u1", "u2">>}
  /\ dependencies = task_dependencies
  /\ uuids = 2
  /\ nOps = 0
  /\ reqs = [s \in Slots |-> IdleReq]
  /\ sync = IdleSync
  /\ out = NoOutcome
  /\ InitReminders
  /\ InitTime
  /\ InitTimer

\* The single-item requests on that database.
SpecRace == InitRace /\ [][Next]_vars

\* A database the server has run on: the daily task u1 (made by POST
\* /api/tasks), incomplete, and no dependency edge.
InitRecur ==
  /\ now = 0
  /\ tasks = ("u1" :> InsertedRow("u1", BodyNew, 0))
  /\ task_dependencies = {}
  /\ dependencies = task_dependencies
  /\ uuids = 1
  /\ nOps = 0
  /\ reqs = [s \in Slots |-> IdleReq]
  /\ sync = IdleSync
  /\ out = NoOutcome
  /\ InitReminders
  /\ InitTime
  /\ InitTimer

\* The bodies the clients of that database send.
RecurBodies == {BodyDone, BodyEdit}

NextRecur ==
  \/ \E s \in Slots, id \in TaskIds, body \in RecurBodies : PutRequest(s, id, body)
  \/ \E s \in Slots : DependencyCheck(s)
  \/ \E s \in Slots : DoTaskUpdate(s)
  \/ \E s \in Slots : SelectTaskRow(s)
  \/ \E s \in Slots : InsertSuccessor(s)

\* PUT requests on that database, interleaved statement by statement.
SpecRecur == InitRecur /\ [][NextRecur]_vars

NextSync ==
  \/ \E body \in PostBodies : CreateTask(body)
  \/ \E id \in TaskIds : DeleteTask(id)
  \/ SyncRequest
  \/ \E op \in SyncOps : SyncApply(op)
  \/ \E p \in sync.pending : SyncWrite(p)
  \/ SyncRespond
  \/ Tick

\* The task store under sync batches, with single-item creates and deletes
\* arriving between the rounds of a batch.  No request of this
\* specification reads table dependencies.
InitSync == Init /\ dependencies = NoTable

SpecSync == InitSync /\ [][NextSync]_vars

NextBatch ==
  \/ SyncRequest
  \/ \E op \in SyncOps : SyncApply(op)
  \/ \E p \in sync.pending : SyncWrite(p)
  \/ SyncRespond
  \/ \E id \in TaskIds : DeleteTask(id)

\* The loop of the sync endpoint, with single-item deletes arriving between
\* its rounds.
SpecBatch == InitSync /\ [][NextBatch]_vars

\* The same loop on a database that may hold its dependency edges under
\* the name the completion check of the PUT reads.
SpecBatchAnyDb == Init /\ [][NextBatch]_vars

\* A server whose database holds no dependency edges.
InitScheduler ==
  /\ now = 0
  /\ InitTasks
  /\ task_dependencies = {}
  /\ dependencies = NoTable
  /\ InitReminders
  /\ InitTime
  /\ InitTimer

NextScheduler ==
  \/ \E u \in {UserId, StrangerId}, t \in RemindAtInputs : CreateReminder(u, t)
  \/ \E id \in RemIds, t \in SnoozeInputs : Snooze(id, t)
  \/ \E t \in 0..MaxScanTime : ScanStart(t)
  \/ \E s \in 1..MaxScans : ScanQuery(s)
  \/ \E m \in mails : MailFails(m)
  \/ \E m \in mails : MailSucceeds(m)
  \/ \E w \in writes : MarkSent(w)
  \/ \E w \in writes : MarkSentFails(w)

\* The reminder scheduler, with reminder requests arriving while it runs.
SpecReminders == InitScheduler /\ [][NextScheduler]_vars

NextForever ==
  \/ NextScheduler
  \/ ForgetScans

\* What the code's scheduling gives: cron fires again and again and the
\* clock reaches every time; a statement issued runs; sendMail calls back,
\* and does not fail forever; the UPDATE of sent does not fail forever.
FairScheduler ==
  /\ SF_vars(ScanStart(MaxScanTime))
  /\ WF_vars(ForgetScans)
  /\ WF_vars(\E s \in 1..MaxScans : ScanQuery(s))
  /\ WF_vars(\E m \in mails : MailFails(m) \/ MailSucceeds(m))
  /\ SF_vars(\E m \in mails : MailSucceeds(m))
  /\ WF_vars(\E w \in writes : MarkSent(w) \/ MarkSentFails(w))
  /\ SF_vars(\E w \in writes : MarkSent(w))

\* The reminder scheduler running without end, under fair scheduling.
SpecForever == InitScheduler /\ [][NextForever]_vars /\ FairScheduler

NextTimer ==
  \/ startTimer
  \/ pauseTimer
  \/ resetTimer
  \/ \E h \in intervals : TimerTick(h)

\* The pomodoro timer of the browser page: its three functions called in
\* any order, and the interval's callback.
SpecTimer == Init /\ [][NextTimer]_vars

NextTime ==
  \/ \E t \in StartReadings : StartEntry(Uuid(1), t)
  \/ \E e \in EntryIds, t \in ClockReadings : StopRequest(e, t)
  \/ \E r \in stops : StopSelect(r)
  \/ \E r \in stops : StopUpdate(r)

\* The time-tracking endpoints, the statements of the stop requests
\* interleaved.
SpecTime == InitScheduler /\ [][NextTime]_vars

\* ----------------------------------------------------- task properties
\* The request in slot s has been answered.
Answered(s) == reqs[s].status # 0

\* The request in slot s asked for completed = true.
AsksCompletion(s) == reqs[s].pc # "idle" /\ Truthy(reqs[s].body.completed)

\* C1: no write changes a task from completed = 0 to completed = 1 while
\* one of its dependency edges names a task that is in the store and
\* incomplete at the moment of the write.
C1_NoCompletionWhileBlocked ==
  [][\A id \in DOMAIN tasks \cap DOMAIN tasks' :
       (tasks[id].completed = 0 /\ tasks'[id].completed = 1)
         => IncompletePrerequisites(tasks, id) = {}]_vars

\* C2: a PUT with completed = true whose target had an incomplete
\* prerequisite when the dependency query ran is answered 400 with exactly
\* the blocking identifiers, without its UPDATE having run and without a
\* successor.
C2_RejectedAtomically ==
  \A s \in Slots :
    (AsksCompletion(s) /\ reqs[s].pc = "done" /\ reqs[s].prereqs # {})
      => /\ reqs[s].status = 400
         /\ reqs[s].missing = reqs[s].prereqs
         /\ reqs[s].before = NoRow /\ reqs[s].after = NoRow
         /\ reqs[s].succ = {}

\* C3: the completion check of a PUT with completed = true lets the update
\* through exactly when the target has no incomplete prerequisite, and the
\* update then leaves the target completed; otherwise the 400 lists exactly
\* the incomplete prerequisites.
C3_CheckAllowsIffUnblocked ==
  \A s \in Slots :
    (AsksCompletion(s) /\ reqs[s].pc \notin {"check"})
      => IF reqs[s].prereqs = {}
           THEN /\ reqs[s].status \in {0, 200}
                /\ (reqs[s].status = 200 /\ reqs[s].before # NoRow)
                     => reqs[s].after.completed = 1
           ELSE /\ reqs[s].status = 400
                /\ reqs[s].missing = reqs[s].prereqs

\* The successor row the request in slot s inserted.
InsertedSuccessor(s) ==
  SuccessorRow(reqs[s].newId, reqs[s].taskRow, reqs[s].nextDue, reqs[s].created_at)

\* The PUT in slot s has run to its end and its UPDATE moved a task that
\* carries a recurrence rule from incomplete to completed.
CompletedRecurring(s) ==
  /\ reqs[s].pc = "done"
  /\ reqs[s].status = 200
  /\ reqs[s].before # NoRow
  /\ reqs[s].before.completed = 0
  /\ reqs[s].after.completed = 1
  /\ reqs[s].after.recurring_rule # Null

\* C4: a PUT that moves a task carrying a recurrence rule from incomplete to
\* completed creates exactly one successor, under a new identifier,
\* incomplete, with the completed task's title, description, priority,
\* assignee and recurrence rule.
C4_OneSuccessor ==
  \A s \in Slots :
    CompletedRecurring(s)
      => /\ Cardinality(reqs[s].succ) = 1
         /\ reqs[s].newId # reqs[s].id
         /\ InsertedSuccessor(s).completed = 0
         /\ InsertedSuccessor(s).title = reqs[s].after.title
         /\ InsertedSuccessor(s).description = reqs[s].after.description
         /\ InsertedSuccessor(s).priority = reqs[s].after.priority
         /\ InsertedSuccessor(s).assignee = reqs[s].after.assignee
         /\ InsertedSuccessor(s).recurring_rule = reqs[s].after.recurring_rule

\* One recurrence period in days.
Period(recurring_rule) ==
  IF recurring_rule = "daily" THEN 1 ELSE IF recurring_rule = "weekly" THEN 7 ELSE 0

\* C5: the successor's due time is the completed task's prior due time plus
\* one period (daily: 1 day, weekly: 7 days), and the current time plus one
\* period when the completed task had no due time.
C5_DuePlusOnePeriod ==
  \A s \in Slots :
    (CompletedRecurring(s) /\ reqs[s].succ # {}
       /\ reqs[s].after.recurring_rule \in {"daily", "weekly"})
      => reqs[s].nextDue =
           (IF reqs[s].before.due_at.kind \in {"ms", "iso"}
              THEN reqs[s].before.due_at.t
              ELSE reqs[s].created_at) + Period(reqs[s].after.recurring_rule)

\* C10: the response of a sync batch carries one result per operation of
\* the batch.
C10_OneResultPerOperation ==
  sync.pc = "done" => Len(sync.results) = Len(sync.ops)

\* C15: a single-item update or delete whose identifier has no row in the
\* store is answered 404 and emits no event.
C15_NotFoundReported ==
  (out.op \in {"update", "delete"} /\ ~out.found)
    => out.status = 404 /\ out.events = <<>>

\* The event a single-item operation is to emit.
EventName(op) ==
  IF op = "create" THEN "task:created"
  ELSE IF op = "update" THEN "task:updated" ELSE "task:deleted"

\* The payload has field f of the stored row with the stored value
\* (completed: true for 1, anything falsy for 0).
CarriesField(payload, row, f) ==
  /\ f \in DOMAIN payload
  /\ IF f = "completed" THEN Truthy(payload[f]) <=> row[f] = 1
                        ELSE payload[f] = row[f]

\* C16: a single-item create, update or delete answered 200 emits exactly
\* one event, of its own name, whose payload carries every field of the
\* row the statement left (for a delete: the identifier and nothing else);
\* one answered with an error emits none.
C16_OneEventFullRecord ==
  out.op \in {"create", "update", "delete"} =>
    IF out.status = 200
      THEN /\ Len(out.events) = 1
           /\ out.events[1].name = EventName(out.op)
           /\ IF out.op = "delete"
                THEN out.events[1].payload = [id |-> out.id]
                ELSE out.record # NoRow =>
                       \A f \in DOMAIN out.record :
                         CarriesField(out.events[1].payload, out.record, f)
      ELSE out.events = <<>>

\* The rounds of the batch whose statement has run.
Written == {sync.written[i] : i \in 1..Len(sync.written)}

\* C11: the statements of one sync batch run one at a time and in input
\* order: at most one is issued and not yet run, they ran in increasing
\* order of their rounds, and when the statement of round k is issued the
\* statement of every earlier round has run.
C11_AppliedInOrder ==
  /\ Cardinality(sync.pending) <= 1
  /\ \A i \in 1..(Len(sync.written) - 1) : sync.written[i] < sync.written[i + 1]
  /\ \A p \in sync.pending :
       \A j \in 1..(p.k - 1) : SyncIssues(sync.ops[j]) => j \in Written

\* A batch of a create and an update of the same task has been answered,
\* and the update found the row the create wrote.
C11_Witness ==
  /\ sync.pc = "done"
  /\ sync.ops = ReplayBatch
  /\ sync.written = <<1, 2>>
  /\ sync.alone
  /\ "u1" \in DOMAIN tasks
  /\ tasks["u1"].title = "x"

\* C12: a sync create under an identifier the store holds overwrites that
\* row (every row is stored once, under its own identifier), and the batch
\* [create u1, update u1 with title 'x'] applied alone to the table its own
\* earlier application left leaves that table as it was.
C12_ReplayIdempotent ==
  /\ \A id \in DOMAIN tasks : tasks[id].id = id
  /\ (sync.pc = "done" /\ sync.ops = ReplayBatch /\ sync.alone /\ sync.settled)
       => sync.after = sync.prev

\* The place in results of the entry round k pushed: the rounds up to k
\* that push one.
ResultSlot(k) ==
  Cardinality({j \in 1..k : sync.ops[j].type = "task"
                              /\ sync.ops[j].action \in {"create", "update"}})

\* C13: a sync update whose identifier has no row in the store when its
\* statement runs gets a result with ok = false.
C13_MissingUpdateReported ==
  sync.pc = "done" =>
    \A k \in sync.missed : ~sync.results[ResultSlot(k)].ok

\* The operation cannot be applied: it carries no payload.
SyncFails(op) == op.type = "task" /\ op.action \in {"create", "update"} /\ ~op.hasPayload

\* C14: a failing operation does not end the batch: the request is
\* answered, the failing round has ok = false in its own slot, and the
\* statement of every round after it has run.
C14_FailureIsolated ==
  /\ sync.pc # "crashed"
  /\ sync.pc = "done" =>
       \A k \in 1..Len(sync.ops) :
         SyncFails(sync.ops[k]) =>
           /\ ~sync.results[ResultSlot(k)].ok
           /\ \A j \in (k + 1)..Len(sync.ops) : SyncIssues(sync.ops[j]) => j \in Written

\* C19: while two incomplete tasks of the store are each other's
\* prerequisite, no step makes either of them completed.
C19_CycleNeverCompletes ==
  [][\A a \in DOMAIN tasks, b \in DOMAIN tasks :
       (/\ a # b
        /\ <<a, b>> \in task_dependencies /\ <<b, a>> \in task_dependencies
        /\ tasks[a].completed = 0 /\ tasks[b].completed = 0
        /\ a \in DOMAIN tasks')
         => tasks'[a].completed = 0]_vars

\* One calendar month after day t, the day of the month kept when the
\* target month has it and the target month's last day otherwise.
ClampedMonthPlus1(t) ==
  LET c == YMD(t)
      y == IF c[2] = 11 THEN c[1] + 1 ELSE c[1]
      m == IF c[2] = 11 THEN 0 ELSE c[2] + 1
      d == IF c[3] <= DaysInMonth(y, m) THEN c[3] ELSE DaysInMonth(y, m)
  IN DayNumber(y, m, d)

\* C20: the successor of a completed monthly task, the update having left
\* the task's due time as it was, is due one calendar month after that due
\* time, clamped to the target month's last day (2024-01-31 gives
\* 2024-02-29).
C20_MonthlyClamped ==
  \A s \in Slots :
    (/\ CompletedRecurring(s) /\ reqs[s].succ # {}
     /\ reqs[s].after.recurring_rule = "monthly"
     /\ reqs[s].before.due_at.kind \in {"ms", "iso"}
     /\ reqs[s].after.due_at = reqs[s].before.due_at)
      => reqs[s].nextDue = ClampedMonthPlus1(reqs[s].before.due_at.t)

\* The UPDATE of the PUT in slot s found its row and left it completed with
\* a recurrence rule, and the request has been answered 200.
AnsweredCompletion(s) ==
  /\ AsksCompletion(s)
  /\ reqs[s].status = 200
  /\ reqs[s].before # NoRow
  /\ reqs[s].after.completed = 1
  /\ reqs[s].after.recurring_rule # Null

\* C21: when a completing update of a task that carries a recurrence rule
\* has returned its result, the successor has been inserted.
C21_SuccessorBeforeResponse ==
  \A s \in Slots : AnsweredCompletion(s) => reqs[s].succ # {}

\* C22: a PUT inserts a successor only when its UPDATE moved a task with a
\* recurrence rule from incomplete to completed: not for a task that was
\* completed already, not after a rejection by the dependency check, not
\* for an identifier without a row.
C22_SuccessorOnlyOnTransition ==
  \A s \in Slots :
    reqs[s].succ # {}
      => /\ reqs[s].status = 200
         /\ reqs[s].before # NoRow
         /\ reqs[s].before.completed = 0
         /\ reqs[s].after.completed = 1
         /\ reqs[s].after.recurring_rule # Null

\* C23: on a database whose table dependencies exists, the statement of a
\* sync batch of the single operation update(id, fields) leaves table tasks
\* as the single-item PUT of the same id and fields leaves it: unchanged
\* when a prerequisite is incomplete, and with the successor when the
\* request completes a task and carries a rule.
C23_SyncUpdateAsSingleItem ==
  [][\A p \in sync.pending :
       (/\ dependencies # NoTable
        /\ Len(sync.ops) = 1
        /\ sync.ops[1].action = "update"
        /\ sync'.written = <<p.k>>)
         => tasks' = PutAlone(tasks, dependencies, p.id, sync.ops[1].payload,
                              now, Uuid(uuids + 1))]_vars

\* C26: when the UPDATE of a PUT that asks for completed = true runs, no
\* prerequisite of its target is in the store and incomplete: the check and
\* the write act as one step, and no write that makes a prerequisite
\* incomplete comes between them.
C26_CheckAndWriteAtomic ==
  [][\A s \in Slots :
       (/\ reqs[s].pc = "update" /\ reqs'[s].pc # "update"
        /\ Truthy(reqs[s].body.completed)
        /\ reqs[s].id \in DOMAIN tasks)
         => IncompletePrerequisites(tasks, reqs[s].id) = {}]_vars

\* C29: the steps of the recurrence generator (the SELECT and the
\* successor's INSERT) leave every row of the store as it was, the
\* completed task among them.
C29_GenerationLeavesOriginal ==
  [][\A s \in Slots :
       (reqs[s].pc \in {"select", "insert"} /\ reqs'[s].pc # reqs[s].pc)
         => \A id \in DOMAIN tasks : id \in DOMAIN tasks' /\ tasks'[id] = tasks[id]]_vars

\* A PUT completed a recurring task and inserted its successor, and the
\* task's row is what the UPDATE left: completed, with the due time it had.
C29_Witness ==
  \E s \in Slots :
    /\ CompletedRecurring(s)
    /\ reqs[s].succ # {}
    /\ reqs[s].newId \in DOMAIN tasks
    /\ reqs[s].id \in DOMAIN tasks
    /\ tasks[reqs[s].id] = reqs[s].after
    /\ tasks[reqs[s].id].completed = 1
    /\ tasks[reqs[s].id].due_at = reqs[s].before.due_at

\* C30: a PUT that asks for completed = true and whose target had, when
\* the dependency query ran, an edge to an identifier without a row is not
\* rejected on account of that edge: the identifier is not in the list a
\* 400 carries, and with no prerequisite in the store and incomplete the
\* request is let through.
C30_DanglingEdgeNeverBlocks ==
  \A s \in Slots :
    (AsksCompletion(s) /\ reqs[s].pc # "check" /\ reqs[s].dangling # {})
      => /\ reqs[s].missing \cap reqs[s].dangling = {}
         /\ reqs[s].prereqs = {} => reqs[s].status \in {0, 200}

\* The text fields a PUT replaces.
TextFields == {"title", "description", "priority", "assignee", "recurring_rule"}

\* C31: the UPDATE of a PUT whose target has a row is answered 200 and
\* leaves in that row the request's value for each of the seven mutable
\* fields (NULL for a field the request omits, completed = 0 for an omitted
\* completed), with id, created_by and created_at as they were, and leaves
\* every other row and the set of rows unchanged.
C31_UpdateReplacesAllFields ==
  [][\A s \in Slots :
       (reqs[s].pc = "update" /\ reqs'[s].pc # "update" /\ reqs[s].id \in DOMAIN tasks)
         => LET id == reqs[s].id
                b == reqs[s].body
            IN /\ reqs'[s].status = 200
               /\ DOMAIN tasks' = DOMAIN tasks
               /\ \A f \in TextFields :
                    tasks'[id][f] = IF b[f] = Undefined THEN Null ELSE b[f]
               /\ tasks'[id].completed = IF b.completed = JsTrue THEN 1 ELSE 0
               /\ tasks'[id].due_at = IF b.due_at.kind = "undefined" THEN NullDue
                                      ELSE b.due_at
               /\ tasks'[id].id = tasks[id].id
               /\ tasks'[id].created_by = tasks[id].created_by
               /\ tasks'[id].created_at = tasks[id].created_at
               /\ \A o \in DOMAIN tasks \ {id} : tasks'[o] = tasks[o]]_vars

\* A PUT of { title: 'x' } on a completed task, with another task in the
\* store, was answered 200: the task is incomplete again, its omitted
\* fields are NULL and its id, created_by and created_at are as before.
C31_Witness ==
  \E s \in Slots :
    /\ reqs[s].pc = "done"
    /\ reqs[s].status = 200
    /\ reqs[s].body = BodyEdit
    /\ reqs[s].before.completed = 1
    /\ reqs[s].after.completed = 0
    /\ reqs[s].after.title = "x"
    /\ reqs[s].after.description = Null
    /\ reqs[s].after.due_at = NullDue
    /\ reqs[s].after.recurring_rule = Null
    /\ reqs[s].after.id = reqs[s].before.id
    /\ reqs[s].after.created_by = UserId
    /\ Cardinality(DOMAIN tasks) >= 2

\* ------------------------------------------------ time entry properties
\* C17: the duration a stop records is the whole seconds from started_at
\* to stopped_at, and 0 when stopped_at is not later than started_at:
\* 125 for 125 s, never a negative value.
C17_DurationWholeSeconds ==
  \A e \in DOMAIN time_entries :
    time_entries[e].stopped_at # NullTime =>
      LET d == time_entries[e].stopped_at - time_entries[e].started_at
      IN /\ time_entries[e].duration >= 0
         /\ d <= 0 => time_entries[e].duration = 0
         /\ d > 0 => /\ time_entries[e].duration * 1000 <= d
                     /\ d < (time_entries[e].duration + 1) * 1000
         /\ d = 125000 => time_entries[e].duration = 125

\* One entry was stopped 125 s after its start and has duration 125, and
\* one was stopped at a clock reading before its start and has duration 0.
C17_Witness ==
  /\ \E e \in DOMAIN time_entries :
       /\ time_entries[e].stopped_at - time_entries[e].started_at = 125000
       /\ time_entries[e].duration = 125
  /\ \E e \in DOMAIN time_entries :
       /\ time_entries[e].stopped_at # NullTime
       /\ time_entries[e].stopped_at < time_entries[e].started_at
       /\ time_entries[e].duration = 0

\* C18: an entry no stop has written to has no duration and no stop time,
\* and an entry keeps the duration and the stop time its first stop wrote.
C18_DurationImmutable ==
  \A e \in DOMAIN time_entries :
    IF e \in DOMAIN firstStop
      THEN /\ time_entries[e].duration = firstStop[e].duration
           /\ time_entries[e].stopped_at = firstStop[e].stopped_at
      ELSE /\ time_entries[e].duration = NullTime
           /\ time_entries[e].stopped_at = NullTime

\* ------------------------------------------------- reminder properties
Scans == 1..MaxScans

\* Scan s called sendMail for reminder r.
Issued(s, r) == attempts[<<s, r>>] > 0

\* Something of scan s for reminder r is in flight: a sendMail call or the
\* UPDATE of sent.
InFlight(s, r) ==
  \/ \E m \in mails : m.scan = s /\ m.id = r
  \/ [scan |-> s, id |-> r] \in writes

\* C6: once a reminder has sent = 1, no scan that starts later calls
\* sendMail for it, whatever snooze requests arrive in between.
C6_NoDeliveryAfterSent ==
  \A s \in Scans, r \in RemIds :
    r \in scanlog[s].sentBefore => ~Issued(s, r) /\ ~InFlight(s, r)

\* A scan that started after the reminder was marked sent, and was snoozed
\* to a time that is over, has read the table.
C6_Witness ==
  \E s \in Scans, r \in DOMAIN reminders :
    /\ scanlog[s].read
    /\ r \in scanlog[s].sentBefore
    /\ reminders[r].remind_at \in 0..scanlog[s].now
    /\ reminders[r].snoozed_until # NullTime

\* C7: every reminder is delivered successfully at most once.
C7_DeliveredAtMostOnce ==
  \A r \in RemIds : delivered[r] <= 1

\* C8: a scan that reads a reminder whose snoozed_until is later than the
\* scan's now neither calls sendMail for it nor marks it sent; a scan that
\* reads it unsent and due with the snooze over calls sendMail for it (the
\* user having an address).
C8_SnoozeHonoured ==
  \A s \in Scans, r \in RemIds :
    /\ r \in scanlog[s].snoozed => ~Issued(s, r) /\ ~InFlight(s, r)
    /\ (/\ scanlog[s].read
        /\ r \in scanlog[s].unsent \ scanlog[s].snoozed
        /\ UserEmail(reminders[r].user_id) # Null) => Issued(s, r)

\* One scan skipped the snoozed reminder, and a later scan, run when the
\* snooze was over, called sendMail for it.
C8_Witness ==
  \E s1 \in Scans, s2 \in Scans, r \in DOMAIN reminders :
    /\ s1 < s2
    /\ scanlog[s1].read /\ r \in scanlog[s1].snoozed /\ r \in scanlog[s1].unsent
    /\ scanlog[s2].read /\ r \notin scanlog[s2].snoozed /\ Issued(s2, r)
    /\ reminders[r].snoozed_until # NullTime
    /\ reminders[r].snoozed_until <= scanlog[s2].now
    /\ reminders[r].snoozed_until > scanlog[s1].now

\* C9: sent is 1 only for a reminder a sendMail call has succeeded for; a
\* scan calls sendMail at most once per reminder; and a reminder whose
\* delivery failed before a scan started, and which that scan reads unsent,
\* due and not snoozed, is sent by that scan again.
C9_SentOnlyAfterSuccess ==
  /\ \A r \in DOMAIN reminders : reminders[r].sent = 1 => delivered[r] >= 1
  /\ \A s \in Scans, r \in RemIds : attempts[<<s, r>>] <= 1
  /\ \A s \in Scans, r \in RemIds :
       (/\ scanlog[s].read
        /\ r \in scanlog[s].failedBefore
        /\ r \in scanlog[s].unsent \ scanlog[s].snoozed) => Issued(s, r)

\* A delivery failed, the reminder stayed unsent, and the next scan called
\* sendMail for it again.
C9_Witness ==
  \E s \in Scans, r \in DOMAIN reminders :
    /\ scanlog[s].read
    /\ r \in scanlog[s].failedBefore
    /\ Issued(s, r)
    /\ delivered[r] = 0
    /\ reminders[r].sent = 0
    /\ ~InFlight(s, r)

\* C28: a reminder:sent event has been emitted only for a reminder a
\* sendMail call succeeded for and whose row has sent = 1: none after a
\* failed delivery, none for a row that stays at sent = 0.
C28_FiredOnlyWhenSent ==
  \A r \in fired :
    /\ delivered[r] >= 1
    /\ r \in DOMAIN reminders
    /\ reminders[r].sent = 1

Eligible(r) ==
  /\ r \in DOMAIN reminders
  /\ reminders[r].remind_at # NullTime
  /\ reminders[r].sent = 0
  /\ ~(reminders[r].snoozed_until # NullTime /\ reminders[r].snoozed_until > now)

\* A sendMail call for the reminder succeeded and its row has sent = 1.
DeliveredAndSent(r) ==
  r \in DOMAIN reminders /\ reminders[r].sent = 1 /\ delivered[r] >= 1

\* C24: under fair scheduling, every reminder with remind_at set that is
\* unsent and not snoozed past the current time is eventually delivered
\* and marked sent.
C24_EventuallyDelivered ==
  \A r \in RemIds :
    [](Eligible(r) => <>DeliveredAndSent(r))

\* ------------------------------------------------ pomodoro properties
\* isTimerRunning is true exactly when a handle is held, the intervals set
\* and not cleared are the handle held and no other, and timerSeconds is
\* within 1..1500.
TimerConsistent ==
  /\ isTimerRunning <=> timer # NoTimer
  /\ intervals = IF timer # NoTimer THEN {timer} ELSE {}
  /\ Cardinality(intervals) <= 1
  /\ timerSeconds \in 1..1500

\* C32: between the steps of the pomodoro timer TimerConsistent holds; a
\* step taken while the timer runs that leaves it running leaves it on the
\* same interval; and a step that takes timerSeconds down takes it down by
\* one, while the step from 1 stops the timer and sets 1500.
C32_TimerConsistent ==
  /\ TimerConsistent
  /\ [][/\ TimerConsistent'
        /\ (isTimerRunning /\ isTimerRunning') => intervals' = intervals
        /\ timerSeconds' < timerSeconds => timerSeconds' = timerSeconds - 1
        /\ (timerSeconds = 1 /\ timerSeconds' # 1)
             => (timerSeconds' = 1500 /\ ~isTimerRunning' /\ intervals' = {})]_vars

\* The timer was started, paused and started again, and its interval has
\* counted down to the last second: the next tick stops and resets it.
C32_Witness ==
  /\ isTimerRunning
  /\ timer = 2
  /\ intervals = {2}
  /\ timerSeconds = 1

====
